---- MODULE Spec2Model ----
(***************************************************************************)
(* Payment-record store of the FlaskMerchants extension: the in-memory    *)
(* cache (_store), the optional SQLAlchemy backend (_db, one table per    *)
(* model class), and the operations that reconcile a record's state:      *)
(* save_session, get_session, update_state, refund_session,               *)
(* cancel_session, sync_from_provider and the blueprint's /status and     *)
(* /webhook views.                                                        *)
(***************************************************************************)
EXTENDS Integers, Sequences, FiniteSets, TLC

\* ---------------------------------------------------------------------
\* Bounds
\* ---------------------------------------------------------------------

\* cap on the rows the durable backend holds over all tables
MaxRows == 2

\* the provider-issued session ids
Ids == {1, 2}

\* ---------------------------------------------------------------------
\* Program constants
\* ---------------------------------------------------------------------

\* Numeric(19, 4): digits kept after the point by the amount column
NumericScale == 4

\* ":.2f" in to_dict
FormatPlaces == 2

VALID_STATES ==
    {"pending", "processing", "succeeded", "failed", "cancelled", "refunded", "unknown"}

\* Python values that may be None are records tagged with their type
None == [type |-> "NoneType"]

Dict(keys) == [type |-> "dict", keys |-> keys]

Str(s) == [type |-> "str", value |-> s]

EmptyDict == Dict({})

\* bool(x) of such a value
Truthy(x) == x # None /\ x # EmptyDict /\ x # Str("")

\* "x or {}"
OrEmptyDict(x) == IF Truthy(x) THEN x ELSE EmptyDict

\* the SQLAlchemy handle
DB == [type |-> "SQLAlchemy"]

\* model_class=None
NoModelClass == "None"

\* the model classes that exist in the application
ModelClasses == {"Payment", "Pagos", "Paiements"}

\* ---------------------------------------------------------------------
\* Decimal amounts: coef / 10^scale.  A decimal string is the same pair:
\* its digits and the number of digits after the point.
\* ---------------------------------------------------------------------

RECURSIVE Pow10(_)
Pow10(n) == IF n = 0 THEN 1 ELSE 10 * Pow10(n - 1)

\* Decimal.quantize to `places` digits, ROUND_HALF_EVEN
Quantize(d, places) ==
    IF d.scale <= places
    THEN [coef |-> d.coef * Pow10(places - d.scale), scale |-> places]
    ELSE LET q    == Pow10(d.scale - places)
             lo   == d.coef \div q
             rem  == d.coef % q
             half == q \div 2
             up   == rem > half \/ (rem = half /\ lo % 2 = 1)
         IN [coef |-> IF up THEN lo + 1 ELSE lo, scale |-> places]

\* str(Decimal): every digit of the coefficient, `scale` of them after the point
DecimalStr(d) == [digits |-> d.coef, places |-> d.scale]

\* value stored by the Numeric(19, 4) column
ColumnAmount(d) == Quantize(d, NumericScale)

\* f"{Decimal(amount):.2f}"
FormatAmount(d) == DecimalStr(Quantize(d, FormatPlaces))

\* the decimal string s denotes the value of the Decimal d
SameAmount(s, d) == s.digits * Pow10(d.scale) = d.coef * Pow10(s.places)

\* ---------------------------------------------------------------------
\* Checkout sessions handed to save_session (merchants.CheckoutSession)
\* ---------------------------------------------------------------------

CheckoutSession(id, variant) ==
    IF variant = 1
    THEN [session_id |-> id, redirect_url |-> "https://pay/a", provider |-> "dummy",
          amount |-> [coef |-> 500, scale |-> 2], currency |-> "USD",
          metadata |-> EmptyDict, raw |-> Dict({"id"})]
    ELSE [session_id |-> id, redirect_url |-> "https://pay/b", provider |-> "alt_dummy",
          amount |-> [coef |-> 1005, scale |-> 3], currency |-> "EUR",
          metadata |-> Dict({"order"}), raw |-> Str("created")]

\* the sessions saved in the runs explored: one per id, of either kind
Sessions == {CheckoutSession(1, 1), CheckoutSession(2, 2)}

\* ---------------------------------------------------------------------
\* State
\* ---------------------------------------------------------------------

VARIABLES
    _db,       \* None, or the SQLAlchemy handle given to the extension
    _models,   \* the registered model classes, in registration order
    _store,    \* the in-memory dict, as its entries in insertion order
    tables,    \* the database: model class -> rows in primary-key order
    _provider, \* None, or the single provider given to the extension
    _providers, \* the providers list given to the extension
    _client,   \* None until init_app, then the default merchants.Client
    _clients,  \* the local cache provider key -> merchants.Client
    _REGISTRY, \* the registry of the merchants SDK, in registration order
    blueprint, \* the blueprint init_app registered: "None", "flask", "quart"
    last,      \* the last completed call: operation, arguments, outcome
    requests   \* worker thread -> the request it is serving and where it is

vars == <<_db, _models, _store, tables, _provider, _providers, _client, _clients,
          _REGISTRY, blueprint, last, requests>>

\* the worker threads of the server
Threads == {1, 2}

\* a worker that serves no request
Idle == [op |-> "", pc |-> "idle", payment_id |-> 0, state |-> "", cls |-> "None",
         updated |-> "", ret |-> "", session |-> [type |-> "NoneType"]]

provider_vars == <<_provider, _providers, _client, _clients, _REGISTRY, blueprint>>

store_vars == <<_store, tables>>

\* ---------------------------------------------------------------------
\* The in-memory dict
\* ---------------------------------------------------------------------

\* payment_id in self._store
StoreHas(store, payment_id) == \E i \in 1..Len(store) : store[i].k = payment_id

\* self._store.get(payment_id)
StoreGet(store, payment_id) ==
    IF StoreHas(store, payment_id)
    THEN store[CHOOSE i \in 1..Len(store) : store[i].k = payment_id].v
    ELSE None

\* self._store[session_id] = data
StorePut(store, session_id, data) ==
    IF StoreHas(store, session_id)
    THEN [i \in 1..Len(store) |->
            IF store[i].k = session_id THEN [k |-> session_id, v |-> data] ELSE store[i]]
    ELSE Append(store, [k |-> session_id, v |-> data])

\* the assignment as it would be if it reached the entry of every key
StoreSetStateAll(store, payment_id, state) ==
    [i \in 1..Len(store) |->
        [k |-> store[i].k, v |-> [store[i].v EXCEPT !.state = state]]]

\* self._store[payment_id]["state"] = state
StoreSetState(store, payment_id, state) ==
    [i \in 1..Len(store) |->
        IF store[i].k = payment_id
        THEN [k |-> payment_id, v |-> [store[i].v EXCEPT !.state = state]]
        ELSE store[i]]

\* ---------------------------------------------------------------------
\* The model classes and their tables
\* ---------------------------------------------------------------------

_get_model_classes == IF _models # <<>> THEN _models ELSE <<"Payment">>

_payment_model == _get_model_classes[1]

\* query(model_cls).filter_by(session_id=payment_id).first(): the position
\* of the row in its table, 0 for None
QueryFirst(model_cls, payment_id) ==
    LET t    == tables[model_cls]
        hits == {i \in 1..Len(t) : t[i].session_id = payment_id}
    IN IF hits = {} THEN 0 ELSE CHOOSE i \in hits : \A j \in hits : i <= j

\* "for model_cls in classes: record = ...first(); if record is not None":
\* the position in `classes` of the first class holding payment_id, 0 if none
SearchModels(classes, payment_id) ==
    LET ks == {k \in 1..Len(classes) : QueryFirst(classes[k], payment_id) # 0}
    IN IF ks = {} THEN 0 ELSE CHOOSE k \in ks : \A j \in ks : k <= j

validate_state(value) == value \in VALID_STATES

to_dict(row) ==
    [session_id       |-> row.session_id,
     redirect_url     |-> row.redirect_url,
     provider         |-> row.provider,
     amount           |-> FormatAmount(row.amount),
     currency         |-> row.currency,
     state            |-> row.state,
     metadata         |-> OrEmptyDict(row.metadata_json),
     request_payload  |-> OrEmptyDict(row.request_payload),
     response_payload |-> OrEmptyDict(row.response_payload)]

\* ---------------------------------------------------------------------
\* Payment store helpers.  Each operator gives the outcome of the call in
\* the current state: the stores it leaves and what it returns or raises.
\* ---------------------------------------------------------------------

\* save_session as it would be if the dict were written before the insert
\* and its commit
save_session_cache_first(session, model_class, request_payload) ==
    LET response_raw == IF session.raw.type = "dict" THEN session.raw ELSE EmptyDict
        req_payload  == OrEmptyDict(request_payload)
        data == [session_id       |-> session.session_id,
                 redirect_url     |-> session.redirect_url,
                 provider         |-> session.provider,
                 amount           |-> DecimalStr(session.amount),
                 currency         |-> session.currency,
                 metadata         |-> session.metadata,
                 state            |-> "pending",
                 request_payload  |-> req_payload,
                 response_payload |-> response_raw]
        cls == IF model_class # NoModelClass THEN model_class ELSE _payment_model
        record == [session_id       |-> session.session_id,
                   redirect_url     |-> session.redirect_url,
                   provider         |-> session.provider,
                   amount           |-> ColumnAmount(session.amount),
                   currency         |-> session.currency,
                   state            |-> "pending",
                   metadata_json    |-> OrEmptyDict(session.metadata),
                   request_payload  |-> req_payload,
                   response_payload |-> response_raw]
        rejected == _db # None /\ QueryFirst(cls, session.session_id) # 0
    IN [tables |-> IF _db # None /\ ~rejected
                   THEN [tables EXCEPT ![cls] = Append(@, record)]
                   ELSE tables,
        store  |-> StorePut(_store, session.session_id, data),
        raised |-> IF rejected THEN "IntegrityError" ELSE ""]

save_session(session, model_class, request_payload) ==
    LET response_raw == IF session.raw.type = "dict" THEN session.raw ELSE EmptyDict
        req_payload  == OrEmptyDict(request_payload)
        data == [session_id       |-> session.session_id,
                 redirect_url     |-> session.redirect_url,
                 provider         |-> session.provider,
                 amount           |-> DecimalStr(session.amount),
                 currency         |-> session.currency,
                 metadata         |-> session.metadata,
                 state            |-> "pending",
                 request_payload  |-> req_payload,
                 response_payload |-> response_raw]
        cls == IF model_class # NoModelClass THEN model_class ELSE _payment_model
        record == [session_id       |-> session.session_id,
                   redirect_url     |-> session.redirect_url,
                   provider         |-> session.provider,
                   amount           |-> ColumnAmount(session.amount),
                   currency         |-> session.currency,
                   state            |-> "pending",
                   metadata_json    |-> OrEmptyDict(session.metadata),
                   request_payload  |-> req_payload,
                   response_payload |-> response_raw]
    IN IF _db # None /\ QueryFirst(cls, session.session_id) # 0
       THEN \* the unique index on session_id rejects the insert at commit
            [tables |-> tables, store |-> _store, raised |-> "IntegrityError"]
       ELSE [tables |-> IF _db # None
                        THEN [tables EXCEPT ![cls] = Append(@, record)]
                        ELSE tables,
             store  |-> StorePut(_store, session.session_id, data),
             raised |-> ""]

get_session(payment_id) ==
    IF _db # None
    THEN LET classes == _get_model_classes
             k       == SearchModels(classes, payment_id)
         IN IF k # 0
            THEN to_dict(tables[classes[k]][QueryFirst(classes[k], payment_id)])
            ELSE None
    ELSE StoreGet(_store, payment_id)

\* update_in_store as it would be if a missing key were written instead of
\* being reported
update_in_store_upsert(payment_id, state) ==
    IF ~StoreHas(_store, payment_id)
    THEN [tables |-> tables,
          store  |-> Append(_store, [k |-> payment_id, v |-> [state |-> state]]),
          ret    |-> "True"]
    ELSE [tables |-> tables, store |-> StoreSetState(_store, payment_id, state),
          ret |-> "True"]

\* "if payment_id not in self._store: return False" and the two lines after
\* it: the in-memory branch, and the fall-back of the durable one
update_in_store(payment_id, state) ==
    IF ~StoreHas(_store, payment_id)
    THEN [tables |-> tables, store |-> _store, ret |-> "False"]
    ELSE [tables |-> tables, store |-> StoreSetState(_store, payment_id, state),
          ret |-> "True"]

\* the body as it would be if a record in a final state were left alone
update_record_unless_final(model_cls, payment_id, state) ==
    IF ~validate_state(state)
    THEN [tables |-> tables, store |-> _store, ret |-> "ValueError"]
    ELSE IF tables[model_cls][QueryFirst(model_cls, payment_id)].state
              \in {"succeeded", "failed", "cancelled", "refunded"}
    THEN [tables |-> tables, store |-> _store, ret |-> "False"]
    ELSE [tables |-> [tables EXCEPT
                        ![model_cls][QueryFirst(model_cls, payment_id)].state = state],
          store  |-> IF StoreHas(_store, payment_id)
                     THEN StoreSetState(_store, payment_id, state)
                     ELSE _store,
          ret    |-> "True"]

\* the body of "if record is not None:" for the record found in model_cls
update_record(model_cls, payment_id, state) ==
    IF ~validate_state(state)
    THEN \* record.state = state raises in the validator, before the commit
         [tables |-> tables, store |-> _store, ret |-> "ValueError"]
    ELSE [tables |-> [tables EXCEPT
                        ![model_cls][QueryFirst(model_cls, payment_id)].state = state],
          store  |-> IF StoreHas(_store, payment_id)
                     THEN StoreSetState(_store, payment_id, state)
                     ELSE _store,
          ret    |-> "True"]

\* update_state as it would be if the models were searched from the last
\* registered to the first
update_state_last_match(payment_id, state) ==
    LET classes == _get_model_classes
        found   == {k \in 1..Len(classes) : QueryFirst(classes[k], payment_id) # 0}
    IN IF _db # None
       THEN IF found # {}
            THEN update_record(classes[CHOOSE k \in found : \A j \in found : j <= k],
                               payment_id, state)
            ELSE update_in_store(payment_id, state)
       ELSE update_in_store(payment_id, state)

update_state(payment_id, state) ==
    LET classes == _get_model_classes
        k       == SearchModels(classes, payment_id)
    IN IF _db # None
       THEN IF k # 0
            THEN update_record(classes[k], payment_id, state)
            ELSE \* not found in any model: fall back to in-memory
                 update_in_store(payment_id, state)
       ELSE update_in_store(payment_id, state)

\* refund_session as it would be with the target state of cancel_session
refund_as_cancel(payment_id) == update_state(payment_id, "cancelled")

refund_session(payment_id) == update_state(payment_id, "refunded")

cancel_session(payment_id) == update_state(payment_id, "cancelled")

all_sessions(model_class) ==
    IF _db # None
    THEN LET classes == IF model_class # NoModelClass
                        THEN <<model_class>> ELSE _get_model_classes
             RECURSIVE extend(_)
             extend(n) == IF n = 0 THEN <<>>
                          ELSE extend(n - 1) \o
                               [i \in 1..Len(tables[classes[n]]) |-> to_dict(tables[classes[n]][i])]
         IN extend(Len(classes))
    ELSE [i \in 1..Len(_store) |-> _store[i].v]

\* ---------------------------------------------------------------------
\* Providers, the registry of the merchants SDK, and the clients
\* ---------------------------------------------------------------------

\* DummyProvider(always_state=...), whose key is "dummy"
DummyProvider(always_state) == [key |-> "dummy", always_state |-> always_state]

\* class AltDummyProvider(DummyProvider): key = "alt_dummy"
AltDummyProvider == [key |-> "alt_dummy", always_state |-> "None"]

\* the provider instances an application creates
Providers == {DummyProvider("None"), DummyProvider("failed"), AltDummyProvider}

\* the provider_key argument left out
NoProviderKey == "None"

\* a list argument, as opposed to None
List(items) == [type |-> "list", items |-> items]

\* merchants.register_provider(p): _REGISTRY[p.key] = p
register_provider(reg, p) ==
    IF \E i \in 1..Len(reg) : reg[i].key = p.key
    THEN [i \in 1..Len(reg) |-> IF reg[i].key = p.key THEN p ELSE reg[i]]
    ELSE Append(reg, p)

\* "for p in all_providers: merchants.register_provider(p)"
RECURSIVE register_all(_, _)
register_all(reg, providers) ==
    IF providers = <<>> THEN reg
    ELSE register_all(register_provider(reg, Head(providers)), Tail(providers))

\* merchants.list_providers() on a given registry
RegistryKeys(reg) == [i \in 1..Len(reg) |-> reg[i].key]

\* ext.list_providers()
list_providers == RegistryKeys(_REGISTRY)

\* merchants.Client(provider=p): the client holds the instance as _provider
Client(p) == [type |-> "Client", _provider |-> p]

\* self._make_client(provider_key): the SDK resolves the key in its registry
\* when the client is built, and raises KeyError for a key it does not hold
_make_client(reg, provider_key) ==
    IF \E i \in 1..Len(reg) : reg[i].key = provider_key
    THEN [raised |-> "",
          client |-> Client(reg[CHOOSE i \in 1..Len(reg) : reg[i].key = provider_key])]
    ELSE [raised |-> "KeyError", client |-> None]

\* the client property
client ==
    IF _client = None
    THEN [ret |-> "RuntimeError", rec |-> None]
    ELSE [ret |-> "client", rec |-> _client]

\* get_client as it would be if an unknown key were answered with the
\* default client
get_client_or_default(provider_key) ==
    IF provider_key = NoProviderKey
    THEN client @@ [clients |-> _clients]
    ELSE IF StoreHas(_clients, provider_key)
         THEN [ret |-> "client", rec |-> StoreGet(_clients, provider_key),
               clients |-> _clients]
         ELSE LET made == _make_client(_REGISTRY, provider_key)
              IN IF made.raised # ""
                 THEN client @@ [clients |-> _clients]
                 ELSE [ret |-> "client", rec |-> made.client,
                       clients |-> StorePut(_clients, provider_key, made.client)]

get_client(provider_key) ==
    IF provider_key = NoProviderKey
    THEN client @@ [clients |-> _clients]
    ELSE IF StoreHas(_clients, provider_key)
         THEN [ret |-> "client", rec |-> StoreGet(_clients, provider_key),
               clients |-> _clients]
         ELSE LET made == _make_client(_REGISTRY, provider_key)
              IN IF made.raised # ""
                 THEN [ret |-> "KeyError", rec |-> None, clients |-> _clients]
                 ELSE [ret |-> "client", rec |-> made.client,
                       clients |-> StorePut(_clients, provider_key, made.client)]

\* init_app(app, provider=..., providers=...): the provider part
init_app(provider, providers) ==
    LET prov  == IF provider # None THEN provider ELSE _provider
        provs == IF providers # None THEN providers.items ELSE _providers
        all_providers == IF prov # None THEN <<prov>> \o provs ELSE provs
        registered == register_all(_REGISTRY, all_providers)
        reg == IF registered = <<>>
               THEN register_provider(registered, DummyProvider("None"))
               ELSE registered
        default_key == IF all_providers # <<>>
                       THEN all_providers[1].key ELSE RegistryKeys(reg)[1]
    IN [provider |-> prov, providers |-> provs, registry |-> reg,
        client |-> _make_client(reg, default_key).client]

\* ---------------------------------------------------------------------
\* The provider client (merchants SDK): what a call to it can produce
\* ---------------------------------------------------------------------

\* PaymentState values a provider reports in the runs explored
ProviderStates == {"succeeded", "refunded"}

\* client.payments.get(payment_id): a status, a merchants.UserError, or
\* any other exception
Fetches ==
    {[kind |-> "ok", state |-> s] : s \in ProviderStates}
        \cup {[kind |-> "UserError", state |-> ""], [kind |-> "Exception", state |-> ""]}

\* the provider was not asked
NoFetch == [kind |-> "", state |-> ""]

\* sync_from_provider as it would be if a failed fetch were recorded as the
\* state "unknown"
sync_marks_unknown(payment_id, fetch) ==
    LET stored == get_session(payment_id)
        same   == [tables |-> tables, store |-> _store]
    IN IF stored = None
       THEN same @@ [ret |-> "None", rec |-> None, calls |-> 0]
       ELSE IF fetch.kind # "ok"
            THEN LET u == update_state(payment_id, "unknown")
                 IN [tables |-> u.tables, store |-> u.store, ret |-> "None",
                     rec |-> None, calls |-> 1]
            ELSE LET u == update_state(payment_id, fetch.state)
                 IN [tables |-> u.tables, store |-> u.store, ret |-> "record",
                     rec |-> [stored EXCEPT !.state = fetch.state], calls |-> 1]

\* sync_from_provider as it would be if the provider were asked before the
\* record is looked up
sync_fetch_first(payment_id, fetch) ==
    LET stored == get_session(payment_id)
        same   == [tables |-> tables, store |-> _store]
    IN IF stored = None \/ fetch.kind # "ok"
       THEN same @@ [ret |-> "None", rec |-> None, calls |-> 1]
       ELSE LET u == update_state(payment_id, fetch.state)
            IN [tables |-> u.tables, store |-> u.store, ret |-> "record",
                rec |-> [stored EXCEPT !.state = fetch.state], calls |-> 1]

\* sync_from_provider as it would be without the update_state call
sync_not_persisted(payment_id, fetch) ==
    LET stored == get_session(payment_id)
        same   == [tables |-> tables, store |-> _store]
    IN IF stored = None
       THEN same @@ [ret |-> "None", rec |-> None, calls |-> 0]
       ELSE IF fetch.kind # "ok"
            THEN same @@ [ret |-> "None", rec |-> None, calls |-> 1]
            ELSE same @@ [ret |-> "record",
                          rec |-> [stored EXCEPT !.state = fetch.state], calls |-> 1]

sync_from_provider(payment_id, fetch) ==
    LET stored == get_session(payment_id)
        same   == [tables |-> tables, store |-> _store]
    IN IF stored = None
       THEN same @@ [ret |-> "None", rec |-> None, calls |-> 0]
       ELSE IF client.ret = "RuntimeError"
       THEN \* self.client raises inside the try block: swallowed like a failed fetch
            same @@ [ret |-> "None", rec |-> None, calls |-> 0]
       ELSE IF fetch.kind # "ok"
            THEN same @@ [ret |-> "None", rec |-> None, calls |-> 1]
            ELSE LET u == update_state(payment_id, fetch.state)
                 IN IF u.ret = "ValueError"
                    THEN same @@ [ret |-> "ValueError", rec |-> None, calls |-> 1]
                    ELSE [tables |-> u.tables, store |-> u.store, ret |-> "record",
                          rec |-> [stored EXCEPT !.state = fetch.state], calls |-> 1]

\* ---------------------------------------------------------------------
\* Blueprint views
\* ---------------------------------------------------------------------

\* the fields of a POST /checkout body: amount, currency, and provider when
\* the caller selects one
CheckoutData ==
    {[amount |-> [digits |-> 500, places |-> 2], currency |-> "USD", provider |-> k] :
        k \in {NoProviderKey, "alt_dummy", "nonexistent"}}

\* client.payments.create_checkout(amount=..., currency=...): the session a
\* provider answers with, under the id it issued
create_checkout(c, data, session_id) ==
    [CheckoutSession(session_id, 1) EXCEPT
        !.provider = c._provider.key,
        !.amount   = [coef |-> data.amount.digits, scale |-> data.amount.places],
        !.currency = data.currency]

\* POST /checkout of the blueprint made by create_blueprint (Flask)
checkout(data, session_id, outcome) ==
    LET same == [tables |-> tables, store |-> _store, clients |-> _clients]
    IN IF client.ret = "RuntimeError"
       THEN same @@ [ret |-> "500", rec |-> None, calls |-> 0]
       ELSE IF outcome = "UserError"
       THEN same @@ [ret |-> "400", rec |-> [error |-> "UserError"], calls |-> 1]
       ELSE LET session == create_checkout(client.rec, data, session_id)
                r       == save_session(session, NoModelClass, None)
            IN IF r.raised # ""
               THEN same @@ [ret |-> "500", rec |-> None, calls |-> 1]
               ELSE [tables |-> r.tables, store |-> r.store, clients |-> _clients,
                     ret |-> "200", rec |-> [session_id |-> session.session_id],
                     calls |-> 1]

\* req_payload of the Quart checkout
CheckoutPayload(data, provider_key) ==
    [type     |-> "dict",
     keys     |-> {"amount", "currency", "success_url", "cancel_url", "metadata"}
                    \cup (IF provider_key # NoProviderKey THEN {"provider"} ELSE {}),
     amount   |-> data.amount,
     currency |-> data.currency,
     provider |-> provider_key]

\* POST /checkout of the blueprint made by create_async_blueprint (Quart)
quart_checkout(data, session_id, outcome) ==
    LET same == [tables |-> tables, store |-> _store, clients |-> _clients]
        provider_key == data.provider
        got  == get_client(provider_key)
    IN IF got.ret = "KeyError"
       THEN same @@ [ret |-> "400", rec |-> [error |-> "Unknown provider"], calls |-> 0]
       ELSE IF got.ret = "RuntimeError"
       THEN same @@ [ret |-> "500", rec |-> None, calls |-> 0]
       ELSE IF outcome = "UserError"
       THEN [tables |-> tables, store |-> _store, clients |-> got.clients,
             ret |-> "400", rec |-> [error |-> "UserError"], calls |-> 1]
       ELSE LET session == create_checkout(got.rec, data, session_id)
                r       == save_session(session, NoModelClass,
                                        CheckoutPayload(data, provider_key))
            IN IF r.raised # ""
               THEN [tables |-> tables, store |-> _store, clients |-> got.clients,
                     ret |-> "500", rec |-> None, calls |-> 1]
               ELSE [tables |-> r.tables, store |-> r.store, clients |-> got.clients,
                     ret |-> "200", rec |-> [session_id |-> session.session_id],
                     calls |-> 1]

\* payment_status as it would be without the update_state call
payment_status_not_persisted(payment_id, fetch) ==
    LET same == [tables |-> tables, store |-> _store]
    IN IF fetch.kind = "UserError"
       THEN same @@ [ret |-> "400", rec |-> None, calls |-> 1]
       ELSE IF fetch.kind # "ok"
            THEN same @@ [ret |-> "500", rec |-> None, calls |-> 1]
            ELSE same @@ [ret |-> "200",
                          rec |-> [payment_id |-> payment_id, state |-> fetch.state],
                          calls |-> 1]

\* GET /status/<payment_id>
payment_status(payment_id, fetch) ==
    LET same == [tables |-> tables, store |-> _store]
    IN IF fetch.kind = "UserError"
       THEN same @@ [ret |-> "400", rec |-> None, calls |-> 1]
       ELSE IF fetch.kind # "ok"
            THEN same @@ [ret |-> "500", rec |-> None, calls |-> 1]
            ELSE LET u == update_state(payment_id, fetch.state)
                 IN IF u.ret = "ValueError"
                    THEN same @@ [ret |-> "500", rec |-> None, calls |-> 1]
                    ELSE [tables |-> u.tables, store |-> u.store, ret |-> "200",
                          rec |-> [payment_id |-> payment_id, state |-> fetch.state],
                          calls |-> 1]

\* the request bodies posted to /webhook: an event of a payment, and a body
\* that is not JSON, which a provider either refuses (parses = FALSE) or
\* reads as an event made of its default values
Payloads ==
    {[payment_id |-> id, event_type |-> "payment.succeeded", json |-> TRUE, parses |-> TRUE] :
        id \in Ids}
        \cup {[payment_id |-> 0, event_type |-> "", json |-> FALSE, parses |-> b] :
                 b \in BOOLEAN}

\* "sha256=" + hmac.new(secret, payload, sha256).hexdigest()
Hmac(payload, key) == [mac |-> <<key, payload>>]

\* headers.get("X-Merchants-Signature", "") of a request without the header
NoSignature == [mac |-> <<>>]

\* the X-Merchants-Signature headers of the requests explored: a sender signs
\* only when a secret was agreed, with that secret or with a guessed one
Signatures(secret, payload) ==
    IF secret = None
    THEN {NoSignature}
    ELSE {NoSignature, Hmac(payload, secret.value), Hmac(payload, "guess")}

\* merchants.verify_signature: TRUE when it does not raise
verify_signature(payload, key, signature) == signature = Hmac(payload, key.value)

\* the provider's parse_webhook: the event of a body it does not refuse
parse_webhook(payload) ==
    [payment_id |-> payload.payment_id,
     event_type |-> payload.event_type,
     state      |-> IF payload.event_type = "payment.succeeded" THEN "succeeded"
                    ELSE IF payload.event_type = "payment.failed" THEN "failed"
                    ELSE "unknown"]

\* webhook as it would be if a request without the signature header skipped
\* the verification
webhook_header_optional(secret, payload, signature) ==
    LET same == [tables |-> tables, store |-> _store]
    IN IF Truthy(secret) /\ signature # NoSignature
          /\ ~verify_signature(payload, secret, signature)
       THEN same @@ [ret |-> "400", rec |-> [error |-> "invalid signature"]]
       ELSE IF ~payload.parses
            THEN same @@ [ret |-> "400", rec |-> [error |-> "malformed payload"]]
            ELSE LET event == parse_webhook(payload)
                     u     == update_state(event.payment_id, event.state)
                 IN [tables |-> u.tables, store |-> u.store, ret |-> "200",
                     rec |-> [received |-> TRUE, payment_id |-> event.payment_id,
                              state |-> event.state]]

\* webhook as it would be if the event were acknowledged but not applied
webhook_ack_only(secret, payload, signature) ==
    LET same == [tables |-> tables, store |-> _store]
    IN IF Truthy(secret) /\ ~verify_signature(payload, secret, signature)
       THEN same @@ [ret |-> "400", rec |-> [error |-> "invalid signature"]]
       ELSE IF ~payload.parses
            THEN same @@ [ret |-> "400", rec |-> [error |-> "malformed payload"]]
            ELSE LET event == parse_webhook(payload)
                 IN same @@ [ret |-> "200",
                             rec |-> [received |-> TRUE, payment_id |-> event.payment_id,
                                      state |-> event.state]]

\* POST /webhook, where secret is current_app.config["MERCHANTS_WEBHOOK_SECRET"]
\* as the request finds it
webhook(secret, payload, signature) ==
    LET same == [tables |-> tables, store |-> _store]
    IN IF Truthy(secret) /\ ~verify_signature(payload, secret, signature)
       THEN same @@ [ret |-> "400", rec |-> [error |-> "invalid signature"]]
       ELSE IF ~payload.parses
            THEN same @@ [ret |-> "400", rec |-> [error |-> "malformed payload"]]
            ELSE LET event == parse_webhook(payload)
                     u     == update_state(event.payment_id, event.state)
                 IN IF u.ret = "ValueError"
                    THEN same @@ [ret |-> "500", rec |-> None]
                    ELSE [tables |-> u.tables, store |-> u.store, ret |-> "200",
                          rec |-> [received |-> TRUE, payment_id |-> event.payment_id,
                                   state |-> event.state]]

\* ---------------------------------------------------------------------
\* Initial state: the extension after FlaskMerchants(app, db=..., models=...)
\* ---------------------------------------------------------------------

Init ==
    /\ \/ _db = None /\ _models = <<>>
       \/ _db = DB /\ _models \in {<<>>, <<"Pagos", "Paiements">>}
    /\ _store = <<>>
    /\ tables = [c \in ModelClasses |-> <<>>]
    /\ _provider = None
    /\ _providers = <<>>
    /\ _REGISTRY = <<DummyProvider("None")>>
    /\ _client = Client(DummyProvider("None"))
    /\ _clients = <<>>
    /\ blueprint = "flask"
    /\ last = [op |-> "init", args |-> None, ret |-> "", rec |-> None, calls |-> 0]
    /\ requests = [t \in Threads |-> Idle]

\* ---------------------------------------------------------------------
\* Calls made to the extension and requests served by the blueprint
\* ---------------------------------------------------------------------

\* state arguments given to update_state by callers of the extension
StateArgs == {"succeeded", "paid"}

\* request_payload arguments given to save_session
RequestPayload(session) ==
    IF session.provider = "dummy" THEN None ELSE Dict({"amount", "currency", "provider"})

TotalRows == Len(tables["Payment"]) + Len(tables["Pagos"]) + Len(tables["Paiements"])

Config == <<_db, _models, provider_vars, requests>>

SaveSession ==
    \E session \in Sessions, model_class \in {NoModelClass, "Paiements"} :
        /\ _db # None => TotalRows < MaxRows
        /\ LET r == save_session(session, model_class, RequestPayload(session))
           IN /\ tables' = r.tables
              /\ _store' = r.store
              /\ last' = [op |-> "save_session",
                          args |-> [session |-> session, model_class |-> model_class],
                          ret |-> IF r.raised = "" THEN "None" ELSE r.raised,
                          rec |-> None, calls |-> 0]
        /\ UNCHANGED Config

GetSession ==
    \E payment_id \in Ids :
        /\ last' = [op |-> "get_session", args |-> [payment_id |-> payment_id],
                    ret |-> IF get_session(payment_id) = None THEN "None" ELSE "record",
                    rec |-> get_session(payment_id), calls |-> 0]
        /\ UNCHANGED <<Config, store_vars>>

\* last.rec keeps the record get_session gave before the call
UpdateState ==
    \E payment_id \in Ids, state \in StateArgs :
        /\ LET r == update_state(payment_id, state)
           IN /\ tables' = r.tables
              /\ _store' = r.store
              /\ last' = [op |-> "update_state",
                          args |-> [payment_id |-> payment_id, state |-> state],
                          ret |-> r.ret, rec |-> get_session(payment_id), calls |-> 0]
        /\ UNCHANGED Config

RefundSession ==
    \E payment_id \in Ids :
        /\ LET r == refund_session(payment_id)
           IN /\ tables' = r.tables
              /\ _store' = r.store
              /\ last' = [op |-> "refund_session", args |-> [payment_id |-> payment_id],
                          ret |-> r.ret, rec |-> None, calls |-> 0]
        /\ UNCHANGED Config

CancelSession ==
    \E payment_id \in Ids :
        /\ LET r == cancel_session(payment_id)
           IN /\ tables' = r.tables
              /\ _store' = r.store
              /\ last' = [op |-> "cancel_session", args |-> [payment_id |-> payment_id],
                          ret |-> r.ret, rec |-> None, calls |-> 0]
        /\ UNCHANGED Config

SyncFromProvider ==
    \E payment_id \in Ids :
    \E fetch \in IF get_session(payment_id) = None \/ _client = None
                 THEN {NoFetch} ELSE Fetches :
        /\ LET r == sync_from_provider(payment_id, fetch)
           IN /\ tables' = r.tables
              /\ _store' = r.store
              /\ last' = [op |-> "sync_from_provider",
                          args |-> [payment_id |-> payment_id, fetch |-> fetch],
                          ret |-> r.ret, rec |-> r.rec, calls |-> r.calls]
        /\ UNCHANGED Config

PaymentStatus ==
    \E payment_id \in Ids, fetch \in Fetches :
        /\ LET r == payment_status(payment_id, fetch)
           IN /\ tables' = r.tables
              /\ _store' = r.store
              /\ last' = [op |-> "payment_status",
                          args |-> [payment_id |-> payment_id, fetch |-> fetch],
                          ret |-> r.ret, rec |-> r.rec, calls |-> r.calls]
        /\ UNCHANGED Config

Webhook ==
    \E secret \in {None, Str("whsec")}, payload \in Payloads :
    \E signature \in Signatures(secret, payload) :
        /\ LET r == webhook(secret, payload, signature)
           IN /\ tables' = r.tables
              /\ _store' = r.store
              /\ last' = [op |-> "webhook",
                          args |-> [secret |-> secret, payload |-> payload,
                                    signature |-> signature],
                          ret |-> r.ret, rec |-> r.rec, calls |-> 0]
        /\ UNCHANGED Config

Next ==
    \/ SaveSession
    \/ GetSession
    \/ UpdateState
    \/ RefundSession
    \/ CancelSession
    \/ SyncFromProvider
    \/ PaymentStatus
    \/ Webhook

Spec == Init /\ [][Next]_vars

\* ---------------------------------------------------------------------
\* The life of an extension from FlaskMerchants(provider=..., providers=...)
\* without an app, through init_app, to the requests it then serves
\* ---------------------------------------------------------------------

AppInit ==
    /\ _db = None
    /\ _models = <<>>
    /\ _store = <<>>
    /\ tables = [c \in ModelClasses |-> <<>>]
    /\ _provider \in {None, DummyProvider("None")}
    /\ _providers \in {<<>>, <<AltDummyProvider>>}
    /\ _REGISTRY = <<>>
    /\ _client = None
    /\ _clients = <<>>
    /\ blueprint = "None"
    /\ last = [op |-> "init", args |-> None, ret |-> "", rec |-> None, calls |-> 0]
    /\ requests = [t \in Threads |-> Idle]

\* provider= and providers= arguments given to init_app
InitProviderArgs == {None, DummyProvider("failed")}

InitProvidersArgs == {None, List(<<DummyProvider("None"), AltDummyProvider>>)}

InitApp ==
    \E provider \in InitProviderArgs, providers \in InitProvidersArgs,
       app \in {"flask", "quart"} :
        /\ blueprint = "None"
        /\ LET r == init_app(provider, providers)
           IN /\ _provider' = r.provider
              /\ _providers' = r.providers
              /\ _REGISTRY' = r.registry
              /\ _client' = r.client
        /\ blueprint' = app
        /\ last' = [op |-> "init_app",
                    args |-> [provider |-> provider, providers |-> providers, app |-> app],
                    ret |-> "None", rec |-> None, calls |-> 0]
        /\ UNCHANGED <<_db, _models, store_vars, _clients, requests>>

\* merchants.register_provider(p), called by the application at any time
RegisterProvider ==
    \E p \in Providers :
        /\ _REGISTRY' = register_provider(_REGISTRY, p)
        /\ last' = [op |-> "register_provider", args |-> [provider |-> p],
                    ret |-> "None", rec |-> None, calls |-> 0]
        /\ UNCHANGED <<_db, _models, store_vars, _provider, _providers, _client,
                       _clients, blueprint, requests>>

ListProviders ==
    /\ last' = [op |-> "list_providers", args |-> None, ret |-> "list",
                rec |-> List(list_providers), calls |-> 0]
    /\ UNCHANGED <<Config, store_vars>>

ClientProperty ==
    /\ last' = [op |-> "client", args |-> None, ret |-> client.ret,
                rec |-> client.rec, calls |-> 0]
    /\ UNCHANGED <<Config, store_vars>>

ProviderKeys == {NoProviderKey, "dummy", "alt_dummy", "nonexistent"}

GetClient ==
    \E provider_key \in ProviderKeys :
        /\ LET r == get_client(provider_key)
           IN /\ _clients' = r.clients
              /\ last' = [op |-> "get_client", args |-> [provider_key |-> provider_key],
                          ret |-> r.ret, rec |-> r.rec, calls |-> 0]
        /\ UNCHANGED <<_db, _models, store_vars, _provider, _providers, _client,
                       _REGISTRY, blueprint, requests>>

\* a POST /checkout served by the registered blueprint; the provider issues
\* an id it has not issued before
Checkout ==
    \E data \in CheckoutData, outcome \in {"ok", "UserError"} :
    \E session_id \in {id \in Ids : \A other \in Ids :
                                       ~StoreHas(_store, other) => id <= other} :
        /\ blueprint # "None"
        /\ ~StoreHas(_store, session_id)
        /\ LET r == IF blueprint = "quart"
                    THEN quart_checkout(data, session_id, outcome)
                    ELSE checkout(data, session_id, outcome)
           IN /\ tables' = r.tables
              /\ _store' = r.store
              /\ _clients' = r.clients
              /\ last' = [op |-> "checkout",
                          args |-> [data |-> data, session_id |-> session_id,
                                    outcome |-> outcome],
                          ret |-> r.ret, rec |-> r.rec, calls |-> r.calls]
        /\ UNCHANGED <<_db, _models, _provider, _providers, _client, _REGISTRY, blueprint,
                       requests>>

\* ext.save_session called by the application before init_app
SaveUninitialised == _client = None /\ SaveSession

\* ext.sync_from_provider called by the application before init_app
SyncUninitialised == _client = None /\ SyncFromProvider

AppNext ==
    \/ InitApp
    \/ RegisterProvider
    \/ ListProviders
    \/ ClientProperty
    \/ GetClient
    \/ Checkout
    \/ SaveUninitialised
    \/ SyncUninitialised

AppSpec == AppInit /\ [][AppNext]_vars

\* ---------------------------------------------------------------------
\* An application with two providers: the extension after
\* FlaskMerchants(app, providers=[DummyProvider(), AltDummyProvider()]),
\* the checkouts its blueprint serves and the syncs that follow
\* ---------------------------------------------------------------------

SyncInit ==
    /\ _db = None
    /\ _models = <<>>
    /\ _store = <<>>
    /\ tables = [c \in ModelClasses |-> <<>>]
    /\ _provider = None
    /\ _providers = <<DummyProvider("None"), AltDummyProvider>>
    /\ _REGISTRY = <<DummyProvider("None"), AltDummyProvider>>
    /\ _client = Client(DummyProvider("None"))
    /\ _clients = <<>>
    /\ blueprint \in {"flask", "quart"}
    /\ last = [op |-> "init", args |-> None, ret |-> "", rec |-> None, calls |-> 0]
    /\ requests = [t \in Threads |-> Idle]

SyncNext ==
    \/ Checkout
    \/ GetSession
    \/ SyncFromProvider

SyncSpec == SyncInit /\ [][SyncNext]_vars

\* ---------------------------------------------------------------------
\* Admin views.  A bulk action runs the extension's calls one id after the
\* other: each call works on the tables and the dict the call before it
\* left, so the calls are given here over explicit tables and dict.
\* ---------------------------------------------------------------------

\* query(model_cls).filter_by(session_id=payment_id).first() over tbls
RowIn(tbls, model_cls, payment_id) ==
    LET hits == {i \in 1..Len(tbls[model_cls]) : tbls[model_cls][i].session_id = payment_id}
    IN IF hits = {} THEN 0 ELSE CHOOSE i \in hits : \A j \in hits : i <= j

\* the first registered model class holding payment_id in tbls
HolderIn(tbls, payment_id) ==
    LET classes == _get_model_classes
        ks == {k \in 1..Len(classes) : RowIn(tbls, classes[k], payment_id) # 0}
    IN IF ks = {} THEN NoModelClass ELSE classes[CHOOSE k \in ks : \A j \in ks : k <= j]

\* "get_session(payment_id) is not None" over tbls and store
FoundIn(tbls, store, payment_id) ==
    IF _db # None THEN HolderIn(tbls, payment_id) # NoModelClass
                  ELSE StoreHas(store, payment_id)

\* ext.update_state(payment_id, state) over tbls and store; commits counts
\* the calls of self._db.session.commit()
ext_update_state(tbls, store, payment_id, state) ==
    LET cls == HolderIn(tbls, payment_id)
    IN IF _db # None /\ cls # NoModelClass
       THEN IF ~validate_state(state)
            THEN [tables |-> tbls, store |-> store, ret |-> "ValueError", commits |-> 0]
            ELSE [tables |-> [tbls EXCEPT ![cls][RowIn(tbls, cls, payment_id)].state = state],
                  store  |-> IF StoreHas(store, payment_id)
                             THEN StoreSetState(store, payment_id, state)
                             ELSE store,
                  ret |-> "True", commits |-> 1]
       ELSE IF ~StoreHas(store, payment_id)
            THEN [tables |-> tbls, store |-> store, ret |-> "False", commits |-> 0]
            ELSE [tables |-> tbls, store |-> StoreSetState(store, payment_id, state),
                  ret |-> "True", commits |-> 0]

\* ext.sync_from_provider(payment_id) over tbls and store
ext_sync_from_provider(tbls, store, payment_id, fetch) ==
    IF ~FoundIn(tbls, store, payment_id) \/ fetch.kind # "ok"
    THEN [tables |-> tbls, store |-> store, ret |-> "None"]
    ELSE LET u == ext_update_state(tbls, store, payment_id, fetch.state)
         IN [tables |-> u.tables, store |-> u.store, ret |-> "record"]

\* PaymentView (contrib/admin.py): the view over the extension's store

\* "return False": nothing is created
create_model == [tables |-> tables, store |-> _store, ret |-> "False"]

\* delete_model as it would be if it dropped the payment from the store
delete_model_drops(payment_id) ==
    LET Others(r) == r.session_id # payment_id
        Kept(e)   == e.k # payment_id
    IN [tables |-> [c \in ModelClasses |-> SelectSeq(tables[c], Others)],
        store  |-> SelectSeq(_store, Kept),
        ret    |-> "True"]

\* "return False": nothing is deleted
delete_model(payment_id) == [tables |-> tables, store |-> _store, ret |-> "False"]

update_model(payment_id, new_state) == update_state(payment_id, new_state)

\* "for pid in ids" of the three bulk actions; count is the number flashed
RECURSIVE PaymentView_action(_, _, _, _, _)
PaymentView_action(name, ids, fetch, tbls, store) ==
    IF ids = <<>>
    THEN [tables |-> tbls, store |-> store, count |-> 0]
    ELSE LET pid  == Head(ids)
             r    == IF name = "refund"
                     THEN ext_update_state(tbls, store, pid, "refunded")
                     ELSE IF name = "cancel"
                     THEN ext_update_state(tbls, store, pid, "cancelled")
                     ELSE ext_sync_from_provider(tbls, store, pid, fetch)
             rest == PaymentView_action(name, Tail(ids), fetch, r.tables, r.store)
         IN [tables |-> rest.tables, store |-> rest.store,
             count  |-> rest.count + (IF r.ret \in {"True", "record"} THEN 1 ELSE 0)]

action_refund(ids) == PaymentView_action("refund", ids, NoFetch, tables, _store)

action_cancel(ids) == PaymentView_action("cancel", ids, NoFetch, tables, _store)

action_sync(ids, fetch) == PaymentView_action("sync", ids, fetch, tables, _store)

\* the rows ticked in the list before "With selected" is used
IdLists == {<<1>>, <<2>>, <<1, 2>>}

ViewCreate ==
    /\ tables' = create_model.tables
    /\ _store' = create_model.store
    /\ last' = [op |-> "PaymentView.create_model", args |-> None,
                ret |-> create_model.ret, rec |-> None, calls |-> 0]
    /\ UNCHANGED Config

\* a delete request for a listed payment
ViewDelete ==
    \E payment_id \in Ids :
        /\ get_session(payment_id) # None
        /\ LET r == delete_model(payment_id)
           IN /\ tables' = r.tables
              /\ _store' = r.store
              /\ last' = [op |-> "PaymentView.delete_model",
                          args |-> [payment_id |-> payment_id],
                          ret |-> r.ret, rec |-> None, calls |-> 0]
        /\ UNCHANGED Config

\* the modal edit form of a listed payment, state chosen from _STATE_CHOICES
ViewEdit ==
    \E payment_id \in Ids, new_state \in {"processing", "failed"} :
        /\ get_session(payment_id) # None
        /\ LET r == update_model(payment_id, new_state)
           IN /\ tables' = r.tables
              /\ _store' = r.store
              /\ last' = [op |-> "PaymentView.update_model",
                          args |-> [payment_id |-> payment_id, state |-> new_state],
                          ret |-> r.ret, rec |-> None, calls |-> 0]
        /\ UNCHANGED Config

ViewRefund ==
    \E ids \in IdLists :
        /\ LET r == action_refund(ids)
           IN /\ tables' = r.tables
              /\ _store' = r.store
              /\ last' = [op |-> "PaymentView.action_refund", args |-> [ids |-> ids],
                          ret |-> "None", rec |-> [count |-> r.count], calls |-> 0]
        /\ UNCHANGED Config

ViewCancel ==
    \E ids \in IdLists :
        /\ LET r == action_cancel(ids)
           IN /\ tables' = r.tables
              /\ _store' = r.store
              /\ last' = [op |-> "PaymentView.action_cancel", args |-> [ids |-> ids],
                          ret |-> "None", rec |-> [count |-> r.count], calls |-> 0]
        /\ UNCHANGED Config

ViewSync ==
    \E ids \in IdLists, fetch \in Fetches :
        /\ LET r == action_sync(ids, fetch)
           IN /\ tables' = r.tables
              /\ _store' = r.store
              /\ last' = [op |-> "PaymentView.action_sync",
                          args |-> [ids |-> ids, fetch |-> fetch],
                          ret |-> "None", rec |-> [count |-> r.count], calls |-> 0]
        /\ UNCHANGED Config

\* save_session as an application without model classes of its own calls it
SaveDefault == SaveSession /\ last'.args.model_class = NoModelClass

\* the extension's calls and requests together with the PaymentView's
ViewNext ==
    \/ SaveDefault
    \/ GetSession
    \/ UpdateState
    \/ RefundSession
    \/ CancelSession
    \/ SyncFromProvider
    \/ PaymentStatus
    \/ Webhook
    \/ ViewCreate
    \/ ViewDelete
    \/ ViewEdit
    \/ ViewRefund
    \/ ViewCancel
    \/ ViewSync

ViewSpec == Init /\ [][ViewNext]_vars

\* PaymentModelView (contrib/sqla.py): the view over the table of one model
\* class, sharing db.session with the extension.  `db` is what has been
\* committed, `sess` what the session holds (db and its pending changes),
\* `commits` the number of session.commit() calls so far.

\* update_model of the edit form: the state chosen from form_choices is
\* assigned, on_model_change accepts it, the session is committed and
\* after_model_change calls ext.update_state
PaymentModelView_update_model(model, pk, new_state) ==
    LET edited == [tables EXCEPT ![model][pk].state = new_state]
        u      == ext_update_state(edited, _store, edited[model][pk].session_id, new_state)
    IN [tables |-> u.tables, store |-> u.store, commits |-> 1 + u.commits, ret |-> "True"]

\* "try: for pk in ids: ... self.session.commit() except: rollback" of the
\* three bulk actions; at is the position in ids of the pk being handled,
\* fail_at the position at which the database raises (0: it never does)
RECURSIVE PaymentModelView_action(_, _, _, _, _, _, _, _, _, _)
PaymentModelView_action(name, model, ids, fetch, fail_at, at, db, sess, store, commits) ==
    IF at = fail_at
    THEN \* the except branch: pending changes are dropped, committed ones stay
         [tables |-> db, store |-> store, commits |-> commits, ret |-> "rollback"]
    ELSE IF at > Len(ids)
    THEN [tables |-> sess, store |-> store, commits |-> commits + 1, ret |-> "None"]
    ELSE IF ids[at] > Len(sess[model])
    THEN \* get_one(pk) is None
         PaymentModelView_action(name, model, ids, fetch, fail_at, at + 1,
                                 db, sess, store, commits)
    ELSE IF name = "sync"
    THEN PaymentModelView_action(name, model, ids, fetch, fail_at, at + 1, db,
                                 IF fetch.kind = "ok"
                                 THEN [sess EXCEPT ![model][ids[at]].state = fetch.state]
                                 ELSE sess,
                                 store, commits)
    ELSE LET state    == IF name = "refund" THEN "refunded" ELSE "cancelled"
             assigned == [sess EXCEPT ![model][ids[at]].state = state]
             u        == ext_update_state(assigned, store,
                                          assigned[model][ids[at]].session_id, state)
         IN PaymentModelView_action(name, model, ids, fetch, fail_at, at + 1,
                                    IF u.commits > 0 THEN u.tables ELSE db,
                                    u.tables, u.store, commits + u.commits)

\* the primary keys ticked in the list
PkLists == {<<1>>, <<1, 2>>}

BulkNames == {"refund", "cancel", "sync"}

\* what the provider answers to the sync action: a state, or an error
SyncFetches == {[kind |-> "ok", state |-> "succeeded"], [kind |-> "Exception", state |-> ""]}

ModelViewEdit ==
    \E model \in ModelClasses :
    \E pk \in 1..Len(tables[model]) :
    \E new_state \in {"failed"} :
        /\ LET r == PaymentModelView_update_model(model, pk, new_state)
           IN /\ tables' = r.tables
              /\ _store' = r.store
              /\ last' = [op |-> "PaymentModelView.update_model",
                          args |-> [model |-> model, pk |-> pk, state |-> new_state],
                          ret |-> r.ret, rec |-> [commits |-> r.commits], calls |-> 0]
        /\ UNCHANGED Config

\* "With selected": refund, cancel or sync over the ticked rows
ModelViewAction ==
    \E name \in BulkNames, model \in ModelClasses, ids \in PkLists :
    \E fail_at \in {0, Len(ids)} :
    \E fetch \in IF name = "sync" THEN SyncFetches ELSE {NoFetch} :
        /\ tables[model] # <<>>
        /\ LET r == PaymentModelView_action(name, model, ids, fetch, fail_at, 1,
                                            tables, tables, _store, 0)
           IN /\ tables' = r.tables
              /\ _store' = r.store
              /\ last' = [op |-> "PaymentModelView.action",
                          args |-> [name |-> name, model |-> model, ids |-> ids,
                                    fetch |-> fetch, fail_at |-> fail_at],
                          ret |-> r.ret, rec |-> [commits |-> r.commits], calls |-> 0]
        /\ UNCHANGED Config

ModelViewInit == Init /\ _db # None

ModelViewNext ==
    \/ SaveSession
    \/ GetSession
    \/ ModelViewEdit
    \/ ModelViewAction

ModelViewSpec == ModelViewInit /\ [][ModelViewNext]_vars

\* ---------------------------------------------------------------------
\* Requests served at the same time.  The extension holds no lock: a
\* worker thread runs update_state, the checkout view or the webhook view
\* one statement at a time, and the other worker runs between any two of
\* them.  Each worker serves one request.
\* ---------------------------------------------------------------------

Serving(t, op, pc) == requests[t].op = op /\ requests[t].pc = pc

\* the worker moves on with the fields given in `changes`
Goto(t, changes) == requests' = [requests EXCEPT ![t] = changes @@ requests[t]]

\* save_session calls made before the workers take requests
SaveBefore == (\A t \in Threads : requests[t].pc = "idle") /\ SaveSession

\* ext.update_state(payment_id, state) is called
StartUpdateState ==
    \E t \in Threads, payment_id \in Ids, state \in {"succeeded", "failed"} :
        /\ requests[t].pc = "idle"
        /\ Goto(t, [op |-> "update_state", pc |-> "query",
                    payment_id |-> payment_id, state |-> state])
        /\ UNCHANGED <<_db, _models, provider_vars, store_vars, last>>

\* POST /checkout up to the answer of the provider, which has created the
\* session under an id it has not issued before
StartCheckout ==
    \E t \in Threads, data \in {d \in CheckoutData : d.provider = NoProviderKey} :
    \E session_id \in Ids :
        /\ requests[t].pc = "idle"
        /\ ~StoreHas(_store, session_id)
        /\ \A u \in Threads : requests[u].payment_id # session_id
        /\ Goto(t, [op |-> "checkout", pc |-> "save", payment_id |-> session_id,
                    session |-> create_checkout(client.rec, data, session_id)])
        /\ UNCHANGED <<_db, _models, provider_vars, store_vars, last>>

\* ext.save_session(session) and the answer of the checkout view
CheckoutSave ==
    \E t \in Threads :
        /\ Serving(t, "checkout", "save")
        /\ LET r == save_session(requests[t].session, NoModelClass, None)
           IN /\ tables' = r.tables
              /\ _store' = r.store
              /\ Goto(t, [pc |-> "done", ret |-> IF r.raised = "" THEN "200" ELSE "500"])
        /\ UNCHANGED <<_db, _models, provider_vars, last>>

\* POST /webhook for a session the provider has created: no secret is
\* configured, the event parses, and the view calls ext.update_state
StartWebhook ==
    \E t \in Threads, u \in Threads :
        /\ requests[t].pc = "idle"
        /\ requests[u].op = "checkout"
        /\ Goto(t, [op |-> "webhook", pc |-> "query",
                    payment_id |-> requests[u].payment_id, state |-> "succeeded"])
        /\ UNCHANGED <<_db, _models, provider_vars, store_vars, last>>

\* "if self._db is not None: for model_cls in ...: record = ...first()"
Query ==
    \E t \in Threads :
        /\ requests[t].pc = "query"
        /\ LET cls == IF _db # None THEN HolderIn(tables, requests[t].payment_id)
                                    ELSE NoModelClass
           IN Goto(t, [pc |-> IF cls # NoModelClass THEN "assign" ELSE "store",
                       cls |-> cls])
        /\ UNCHANGED <<_db, _models, provider_vars, store_vars, last>>

\* record.state = state, in the session of the worker
Assign ==
    \E t \in Threads :
        /\ requests[t].pc = "assign"
        /\ Goto(t, [pc |-> "commit"])
        /\ UNCHANGED <<_db, _models, provider_vars, store_vars, last>>

\* self._db.session.commit(): the row takes the state assigned
Commit ==
    \E t \in Threads :
        /\ requests[t].pc = "commit"
        /\ LET r == requests[t]
           IN tables' = [tables EXCEPT
                           ![r.cls][RowIn(tables, r.cls, r.payment_id)].state = r.state]
        /\ Goto(t, [pc |-> "mirror"])
        /\ UNCHANGED <<_db, _models, provider_vars, _store, last>>

\* what follows the return of update_state: the caller has its result, or
\* the webhook view goes on to its answer
Returned(t, result) ==
    IF requests[t].op = "webhook"
    THEN [pc |-> "respond", updated |-> result]
    ELSE [pc |-> "done", updated |-> result, ret |-> result]

\* "if payment_id in self._store: self._store[payment_id]['state'] = state"
\* and "return True"
Mirror ==
    \E t \in Threads :
        /\ requests[t].pc = "mirror"
        /\ LET r == requests[t]
           IN _store' = IF StoreHas(_store, r.payment_id)
                        THEN StoreSetState(_store, r.payment_id, r.state)
                        ELSE _store
        /\ Goto(t, Returned(t, "True"))
        /\ UNCHANGED <<_db, _models, provider_vars, tables, last>>

\* the in-memory branch, and the fall-back of the durable one
InStore ==
    \E t \in Threads :
        /\ requests[t].pc = "store"
        /\ LET r == requests[t]
           IN IF StoreHas(_store, r.payment_id)
              THEN /\ _store' = StoreSetState(_store, r.payment_id, r.state)
                   /\ Goto(t, Returned(t, "True"))
              ELSE /\ _store' = _store
                   /\ Goto(t, Returned(t, "False"))
        /\ UNCHANGED <<_db, _models, provider_vars, tables, last>>

\* return jsonify({"received": True, ...}), whatever update_state returned
Respond ==
    \E t \in Threads :
        /\ Serving(t, "webhook", "respond")
        /\ Goto(t, [pc |-> "done", ret |-> "200"])
        /\ UNCHANGED <<_db, _models, provider_vars, store_vars, last>>

RaceInit == Init /\ _models = <<>>

RaceNext ==
    \/ SaveBefore
    \/ StartUpdateState
    \/ StartCheckout
    \/ CheckoutSave
    \/ StartWebhook
    \/ Query
    \/ Assign
    \/ Commit
    \/ Mirror
    \/ InStore
    \/ Respond

RaceSpec == RaceInit /\ [][RaceNext]_vars

\* ---------------------------------------------------------------------
\* Properties
\* ---------------------------------------------------------------------

\* the model class a save_session call resolves its model_class argument to
TargetClass(model_class) ==
    IF model_class # NoModelClass THEN model_class ELSE _payment_model

Registered(model_cls) ==
    \E k \in 1..Len(_get_model_classes) : _get_model_classes[k] = model_cls

\* payment_id has a row in some table, registered or not
HasRow(payment_id) == \E c \in ModelClasses : QueryFirst(c, payment_id) # 0

\* payment_id is in no store: no row in any table and no cache entry
NoRecord(payment_id) == ~HasRow(payment_id) /\ ~StoreHas(_store, payment_id)

\* C1: after save_session(session) returns, on the in-memory backend or on
\* the durable one with a registered target model, get_session(session_id)
\* is a record in state "pending" with the amount, currency and provider of
\* the session.
C1_SaveThenGet ==
    (/\ last.op = "save_session"
     /\ last.ret = "None"
     /\ _db # None => Registered(TargetClass(last.args.model_class)))
        => LET session == last.args.session
               got     == get_session(session.session_id)
           IN /\ got # None
              /\ got.state = "pending"
              /\ SameAmount(got.amount, session.amount)
              /\ got.currency = session.currency
              /\ got.provider = session.provider

\* C2: update_state(id, s) for an id that is in no store returns False and
\* leaves the tables and the in-memory dict as they were.
C2_UnknownIdUntouched ==
    [][(last'.op = "update_state" /\ NoRecord(last'.args.payment_id))
          => (last'.ret = "False" /\ UNCHANGED store_vars)]_vars

\* an update_state call reported an unknown id while the durable backend and
\* the dict held another payment
C2_Witness ==
    /\ last.op = "update_state"
    /\ last.ret = "False"
    /\ NoRecord(last.args.payment_id)
    /\ _db # None
    /\ Len(_store) > 0

\* a save_session of payment_id has succeeded: the dict holds every session
\* saved, on either backend
Saved(payment_id) == StoreHas(_store, payment_id)

\* payment_id is held where the extension looks for it: in the table of a
\* registered model class, or in the dict when there is no database
SavedRegistered(payment_id) ==
    IF _db # None
    THEN SearchModels(_get_model_classes, payment_id) # 0
    ELSE StoreHas(_store, payment_id)

\* the /webhook request passed the signature check or needed none
Accepted(args) ==
    ~Truthy(args.secret) \/ verify_signature(args.payload, args.secret, args.signature)

\* C3: with a secret configured, a /webhook request whose signature is
\* missing or is not the HMAC of the body is answered 400 "invalid
\* signature", also when its body is malformed, and changes no store.
C3_BadSignatureRejected ==
    [][(last'.op = "webhook" /\ ~Accepted(last'.args))
          => /\ last'.ret = "400"
             /\ last'.rec = [error |-> "invalid signature"]
             /\ UNCHANGED store_vars]_vars

\* a request with a guessed signature, carrying an event for a saved payment,
\* was refused
C3_Witness ==
    /\ last.op = "webhook"
    /\ last.args.secret = Str("whsec")
    /\ last.args.signature = Hmac(last.args.payload, "guess")
    /\ last.args.payload.json
    /\ SavedRegistered(last.args.payload.payment_id)
    /\ last.ret = "400"

\* C4 as stated: an accepted /webhook event for a payment that save_session
\* stored is answered 200 and get_session then reports the event's state.
C4_AnySavedSession ==
    (/\ last.op = "webhook"
     /\ Accepted(last.args)
     /\ last.args.payload.json
     /\ Saved(last.args.payload.payment_id))
        => LET got == get_session(last.args.payload.payment_id)
           IN /\ last.ret = "200"
              /\ got # None
              /\ got.state = parse_webhook(last.args.payload).state

\* C4, amended: an accepted /webhook event for a payment saved on the
\* in-memory backend, or saved into the table of a registered model class,
\* is answered 200 and get_session then reports the event's state.
C4_WebhookSetsState ==
    (/\ last.op = "webhook"
     /\ Accepted(last.args)
     /\ last.args.payload.json
     /\ SavedRegistered(last.args.payload.payment_id))
        => LET got == get_session(last.args.payload.payment_id)
           IN /\ last.ret = "200"
              /\ got # None
              /\ got.state = parse_webhook(last.args.payload).state

\* a signed event reached a payment of the durable backend
C4_Witness ==
    /\ last.op = "webhook"
    /\ last.args.secret = Str("whsec")
    /\ last.ret = "200"
    /\ _db # None
    /\ SavedRegistered(last.args.payload.payment_id)
    /\ get_session(last.args.payload.payment_id).state = "succeeded"

\* C5: when the provider's status fetch fails during sync_from_provider of
\* a stored id, the call returns None, raises nothing, and leaves the tables
\* and the dict unchanged.
C5_FailedFetchKeepsState ==
    [][(last'.op = "sync_from_provider" /\ last'.args.fetch.kind \in {"UserError", "Exception"})
          => /\ last'.ret = "None"
             /\ last'.calls = 1
             /\ UNCHANGED store_vars]_vars

\* a sync of a payment of the durable backend met a provider failure
C5_Witness ==
    /\ last.op = "sync_from_provider"
    /\ last.args.fetch.kind = "Exception"
    /\ last.ret = "None"
    /\ _db # None
    /\ get_session(last.args.payment_id) # None
    /\ Saved(last.args.payment_id)

\* C6: sync_from_provider of an id get_session does not find returns None
\* without a call to the provider; no sync calls the provider more than once.
C6_UnknownIdNoProviderCall ==
    [][last'.op = "sync_from_provider"
          => /\ last'.calls <= 1
             /\ get_session(last'.args.payment_id) = None
                  => (last'.calls = 0 /\ last'.ret = "None" /\ UNCHANGED store_vars)]_vars

\* a sync of an unknown id returned without asking the provider, while
\* another payment was stored
C6_Witness ==
    /\ last.op = "sync_from_provider"
    /\ last.calls = 0
    /\ last.ret = "None"
    /\ NoRecord(last.args.payment_id)
    /\ Len(_store) > 0

\* C7: when the fetch succeeds, sync_from_provider returns a record whose
\* state is the one the provider reported, and get_session then reports the
\* same state.
C7_SyncReturnsProviderState ==
    (last.op = "sync_from_provider" /\ last.args.fetch.kind = "ok")
        => LET got == get_session(last.args.payment_id)
           IN /\ last.ret = "record"
              /\ last.rec.state = last.args.fetch.state
              /\ last.rec.session_id = last.args.payment_id
              /\ got # None
              /\ got.state = last.args.fetch.state

\* a sync of a payment of the durable backend brought back "refunded"
C7_Witness ==
    /\ last.op = "sync_from_provider"
    /\ last.ret = "record"
    /\ last.rec.state = "refunded"
    /\ _db # None

RefundOrCancel == {"refund_session", "cancel_session"}

TargetState(op) == IF op = "refund_session" THEN "refunded" ELSE "cancelled"

\* C8 as stated: after a successful save_session of the id, refund_session
\* and cancel_session return True and get_session reports "refunded",
\* "cancelled".
C8_AfterAnySave ==
    (last.op \in RefundOrCancel /\ Saved(last.args.payment_id))
        => LET got == get_session(last.args.payment_id)
           IN /\ last.ret = "True"
              /\ got # None
              /\ got.state = TargetState(last.op)

\* after a refund or cancel of an id that the extension can find, the call
\* has returned True and get_session reports the target state
RefundCancelApplied ==
    (last.op \in RefundOrCancel /\ SavedRegistered(last.args.payment_id))
        => LET got == get_session(last.args.payment_id)
           IN /\ last.ret = "True"
              /\ got # None
              /\ got.state = TargetState(last.op)

\* a refund or cancel step returns what update_state returns in the state
\* it is called in
RefundCancelDelegates ==
    last'.op \in RefundOrCancel
        => last'.ret = update_state(last'.args.payment_id, TargetState(last'.op)).ret

\* C8, amended: refund_session and cancel_session return what update_state
\* returns for "refunded", "cancelled"; for an id saved on the in-memory
\* backend or into the table of a registered model class that is True, and
\* get_session then reports "refunded", "cancelled".
C8_RefundCancel == []RefundCancelApplied /\ [][RefundCancelDelegates]_vars

\* a refund of a payment of the durable backend succeeded
C8_Witness ==
    /\ last.op = "refund_session"
    /\ last.ret = "True"
    /\ _db # None
    /\ SavedRegistered(last.args.payment_id)
    /\ get_session(last.args.payment_id).state = "refunded"

\* C9: the state of every row of every table and of every dict entry is one
\* of VALID_STATES.
C9_OnlyValidStates ==
    /\ \A c \in ModelClasses : \A i \in 1..Len(tables[c]) : tables[c][i].state \in VALID_STATES
    /\ \A i \in 1..Len(_store) : _store[i].v.state \in VALID_STATES

\* C10: all_sessions() holds no two records with the same session_id.
C10_UniqueSessionId ==
    LET sessions == all_sessions(NoModelClass)
    IN \A i, j \in 1..Len(sessions) :
          sessions[i].session_id = sessions[j].session_id => i = j

\* C11 as stated: with the models Pagos and Paiements registered, a
\* save_session(session, model_class=Paiements) that returned leaves a
\* record of that session that get_session returns (pending, same provider
\* and currency), that all_sessions(Paiements) holds, and that
\* all_sessions(Pagos) does not hold.
C11_SavedOnlyInTarget ==
    (/\ last.op = "save_session"
     /\ last.ret = "None"
     /\ last.args.model_class = "Paiements"
     /\ _db # None
     /\ _models = <<"Pagos", "Paiements">>)
    => LET session == last.args.session
           rec     == get_session(session.session_id)
           InList(sessions) ==
               \E i \in 1..Len(sessions) : sessions[i].session_id = session.session_id
       IN /\ rec # None
          /\ rec.state = "pending"
          /\ rec.provider = session.provider
          /\ rec.currency = session.currency
          /\ InList(all_sessions("Paiements"))
          /\ ~InList(all_sessions("Pagos"))

\* C12 as stated: on the durable backend, after any update_state(id, s)
\* that returned True, get_session(id) has state s.
C12_AfterAnyUpdate ==
    (last.op = "update_state" /\ last.ret = "True" /\ _db # None)
    => /\ get_session(last.args.payment_id) # None
       /\ get_session(last.args.payment_id).state = last.args.state

\* after an update_state(id, s) that returned True for an id held by a
\* registered model, get_session(id) has state s
UpdateVisible ==
    (/\ last.op = "update_state"
     /\ last.ret = "True"
     /\ _db # None
     /\ SearchModels(_get_model_classes, last.args.payment_id) # 0)
    => get_session(last.args.payment_id).state = last.args.state

\* such an update_state step changes the state of the row that get_session
\* reads, the one of the earliest registered model holding id, and no other
\* row of any table
UpdateFirstMatchOnly ==
    \A payment_id \in Ids :
        LET classes == _get_model_classes
            k       == SearchModels(classes, payment_id)
        IN (/\ last'.op = "update_state"
            /\ last'.args.payment_id = payment_id
            /\ last'.ret = "True"
            /\ _db # None
            /\ k # 0)
           => tables' = [tables EXCEPT
                           ![classes[k]][QueryFirst(classes[k], payment_id)].state =
                               last'.args.state]

\* C12: on the durable backend, for an id held by a registered model,
\* get_session(id) and update_state(id, s) resolve id to the same record, the
\* one of the earliest registered model that holds id: update_state changes
\* the state of that row only, and get_session(id).state is s right after an
\* update_state(id, s) that returned True.
C12_SameRecord == []UpdateVisible /\ [][UpdateFirstMatchOnly]_vars

\* an update_state returned True for an id that both registered models hold,
\* and only the row of the first model changed
C12_Witness ==
    /\ last.op = "update_state"
    /\ last.ret = "True"
    /\ _models = <<"Pagos", "Paiements">>
    /\ QueryFirst("Pagos", last.args.payment_id) # 0
    /\ QueryFirst("Paiements", last.args.payment_id) # 0
    /\ tables["Pagos"][QueryFirst("Pagos", last.args.payment_id)].state = last.args.state
    /\ tables["Paiements"][QueryFirst("Paiements", last.args.payment_id)].state = "pending"

\* the answer of GET /status/<id> for an id that get_session finds, when the
\* provider reported a state: 200, and the stored state is the reported one
StatusPersisted ==
    (/\ last.op = "payment_status"
     /\ last.args.fetch.kind = "ok"
     /\ get_session(last.args.payment_id) # None)
    => /\ last.ret = "200"
       /\ last.rec.state = last.args.fetch.state
       /\ get_session(last.args.payment_id).state = last.rec.state

\* a GET /status/<id> whose fetch raised merchants.UserError answers 400 and
\* changes no store
StatusUserError ==
    (last'.op = "payment_status" /\ last'.args.fetch.kind = "UserError")
    => (last'.ret = "400" /\ UNCHANGED store_vars)

\* C19: GET /status/<id> for a stored id: after a fetch that succeeded the
\* stored state of id equals the state in the response body; after a fetch
\* that raised a user error the response is 400 and the stored state of id
\* is unchanged.
C19_StatusPersistsState == []StatusPersisted /\ [][StatusUserError]_vars

\* a status request moved a stored payment from pending to the state the
\* provider reported
C19_Witness ==
    /\ last.op = "payment_status"
    /\ last.ret = "200"
    /\ get_session(last.args.payment_id) # None
    /\ get_session(last.args.payment_id).state = "refunded"
    /\ last.rec.state = "refunded"

\* C20: a save_session whose durable insert is rejected raises to its
\* caller and leaves the dict, and the tables, exactly as they were: no
\* entry for that session_id is added or overwritten.
C20_FailedSaveKeepsCache ==
    [][(last'.op = "save_session" /\ last'.ret # "None")
          => (last'.ret = "IntegrityError" /\ UNCHANGED store_vars)]_vars

\* a save_session of an id whose dict entry is no longer pending was rejected
\* by the unique index, and the entry is still as it was
C20_Witness ==
    /\ last.op = "save_session"
    /\ last.ret = "IntegrityError"
    /\ StoreHas(_store, last.args.session.session_id)
    /\ StoreGet(_store, last.args.session.session_id).state = "refunded"

\* provider_key is a key of the registry of the merchants SDK
InRegistry(provider_key) ==
    \E i \in 1..Len(_REGISTRY) : _REGISTRY[i].key = provider_key

\* C13: get_client(key) with a key that is not None and not in the provider
\* registry raises KeyError, returns no client, and leaves the client cache
\* and the default client unchanged; get_client(None) on an initialised
\* extension returns the default client.
C13_UnknownKeyRaises ==
    [][\A provider_key \in ProviderKeys :
          (last'.op = "get_client" /\ last'.args.provider_key = provider_key)
          => /\ (provider_key # NoProviderKey /\ ~InRegistry(provider_key))
                  => /\ last'.ret = "KeyError"
                     /\ last'.rec = None
                     /\ UNCHANGED <<_clients, _client>>
             /\ (provider_key = NoProviderKey /\ _client # None)
                  => /\ last'.ret = "client"
                     /\ last'.rec = _client
                     /\ UNCHANGED <<_clients, _client>>]_vars

\* an initialised extension with a client in its cache was asked for a key
\* that no provider has, and raised
C13_Witness ==
    /\ last.op = "get_client"
    /\ last.args.provider_key = "nonexistent"
    /\ last.ret = "KeyError"
    /\ _client # None
    /\ _clients # <<>>

\* C14: after init_app with a single provider P in effect (the provider=
\* argument of init_app, else the one of the constructor), the default
\* client holds P itself, whatever the providers list and the registry hold.
C14_DefaultIsSingleProvider ==
    (last.op = "init_app" /\ _provider # None) => _client._provider = _provider

\* C15: right after a provider is registered on an initialised extension,
\* list_providers() has its key and get_client(key) returns a client that
\* holds that provider.
C15_RegisteredIsSelectable ==
    (last.op = "register_provider" /\ _client # None)
    => LET p == last.args.provider
       IN /\ \E i \in 1..Len(list_providers) : list_providers[i] = p.key
          /\ get_client(p.key).ret = "client"
          /\ get_client(p.key).rec._provider = p

\* C16: on an extension whose init_app has not run, the client property,
\* get_client(None), and sync_from_provider of a stored session each raise
\* the not-initialised RuntimeError to the caller.
C16_NotInitialisedRaises ==
    _client = None
    => /\ last.op = "client" => last.ret = "RuntimeError"
       /\ (last.op = "get_client" /\ last.args.provider_key = NoProviderKey)
            => last.ret = "RuntimeError"
       /\ (last.op = "sync_from_provider" /\ get_session(last.args.payment_id) # None)
            => last.ret = "RuntimeError"

\* what a POST /checkout that names a provider has answered and stored
CheckoutSelected ==
    (last.op = "checkout" /\ last.args.data.provider # NoProviderKey)
    => IF InRegistry(last.args.data.provider)
       THEN last.ret = "200"
              => StoreGet(_store, last.rec.session_id).provider = last.args.data.provider
       ELSE last.ret = "400" /\ last.rec # None /\ last.calls = 0

\* a POST /checkout that names a key no provider has stores nothing
CheckoutUnknownStoresNothing ==
    (/\ last'.op = "checkout"
     /\ last'.args.data.provider # NoProviderKey
     /\ ~InRegistry(last'.args.data.provider))
    => UNCHANGED store_vars

\* C17: POST /checkout with a provider field, on the Flask and on the Quart
\* blueprint: for a registered key the stored record has that provider; for
\* an unregistered key the answer is 400 with an error body, no provider is
\* called and nothing is stored.
C17_CheckoutSelectsProvider == []CheckoutSelected /\ [][CheckoutUnknownStoresNothing]_vars

\* C18: the record a POST /checkout stored, on the Flask and on the Quart
\* blueprint, has a request_payload with the amount and the currency sent to
\* the provider, and with the provider key when the request named one.
C18_CheckoutKeepsRequestPayload ==
    (last.op = "checkout" /\ last.ret = "200")
    => LET data == last.args.data
           request_payload == StoreGet(_store, last.rec.session_id).request_payload
       IN /\ {"amount", "currency"} \subseteq request_payload.keys
          /\ request_payload.amount = data.amount
          /\ request_payload.currency = data.currency
          /\ data.provider # NoProviderKey
               => /\ "provider" \in request_payload.keys
                  /\ request_payload.provider = data.provider

\* ---------------------------------------------------------------------
\* Errors, transitions and frame of the store operations
\* ---------------------------------------------------------------------

Raised == {"ValueError", "IntegrityError", "KeyError", "RuntimeError"}

StoreCalls == {"update_state", "refund_session", "cancel_session", "get_session",
               "sync_from_provider"}

\* C21: update_state, refund_session, cancel_session, get_session and
\* sync_from_provider never raise, for any session id and any new state, on
\* either backend: every such call ends with a returned value.
C21_NeverRaises == last.op \in StoreCalls => last.ret \notin Raised

\* C23: transitions are unrestricted.  An update_state(id, s) call with a
\* recognised state s on an id get_session found, whatever the state it was
\* in, returned True and get_session(id) now reports state s.
C23_Unrestricted ==
    \A payment_id \in Ids :
        (/\ last.op = "update_state"
         /\ last.args.payment_id = payment_id
         /\ last.args.state \in VALID_STATES
         /\ last.rec # None)
        => /\ last.ret = "True"
           /\ get_session(payment_id) # None
           /\ get_session(payment_id).state = last.args.state

\* a cancelled payment was moved to succeeded, on the durable backend
C23_Witness ==
    /\ last.op = "update_state"
    /\ last.rec # None
    /\ last.rec.state = "cancelled"
    /\ last.args.state = "succeeded"
    /\ last.ret = "True"
    /\ _db # None
    /\ get_session(last.args.payment_id).state = "succeeded"

\* C27: save_session for a session_id that get_session already finds leaves
\* the state get_session reports for it as it was, on either backend.
C27_SaveKeepsState ==
    [][\A payment_id \in Ids :
          (/\ last'.op = "save_session"
           /\ last'.args.session.session_id = payment_id
           /\ get_session(payment_id) # None)
          => get_session(payment_id)'.state = get_session(payment_id).state]_vars

\* the rows of every table (or the dict entries) with the state of
\* payment_id's records left out
ExceptState(tbls, payment_id) ==
    [c \in ModelClasses |->
        [i \in 1..Len(tbls[c]) |->
            IF tbls[c][i].session_id = payment_id
            THEN [tbls[c][i] EXCEPT !.state = ""]
            ELSE tbls[c][i]]]

ExceptStoreState(store, payment_id) ==
    [i \in 1..Len(store) |->
        IF store[i].k = payment_id
        THEN [k |-> payment_id, v |-> [store[i].v EXCEPT !.state = ""]]
        ELSE store[i]]

SyncProviderKey == client.rec._provider.key

\* C26: with several providers registered, a sync_from_provider(id) call
\* that reached a provider asked the provider whose key is recorded on
\* the stored record of id.
C26_SyncAsksOwnProvider ==
    \A payment_id \in Ids :
        (/\ last.op = "sync_from_provider"
         /\ last.args.payment_id = payment_id
         /\ last.calls = 1
         /\ Len(_REGISTRY) > 1)
        => SyncProviderKey = get_session(payment_id).provider

\* ---------------------------------------------------------------------
\* Admin views
\* ---------------------------------------------------------------------

\* C22: no call of the extension and no PaymentView create, delete, edit or
\* bulk action removes a record: an id for which get_session returns a
\* record before a step has one after it.
C22_NeverRemoved ==
    [][\A payment_id \in Ids :
          get_session(payment_id) # None => FoundIn(tables', _store', payment_id)]_vars

\* the PaymentView was asked to delete a listed payment, which is still
\* there
C22_Witness ==
    /\ last.op = "PaymentView.delete_model"
    /\ last.ret = "False"
    /\ get_session(last.args.payment_id) # None

\* C24: a bulk PaymentModelView action over the selected rows issues
\* exactly one commit when it completes, and when it fails part-way it is
\* rolled back as a unit: no commit was issued and the tables are as they
\* were before the action.
C24_OneCommitPerAction ==
    [][last'.op = "PaymentModelView.action"
          => /\ last'.ret = "None" => last'.rec.commits = 1
             /\ last'.ret = "rollback" => last'.rec.commits = 0 /\ tables' = tables]_vars

\* C25: with a durable backend, every session id present both in the dict
\* and in the table of a registered model has the same state in the dict as
\* get_session reports from the tables.
C25_CacheAgrees ==
    \A payment_id \in Ids :
        (_db # None /\ StoreHas(_store, payment_id) /\ get_session(payment_id) # None)
        => StoreGet(_store, payment_id).state = get_session(payment_id).state

\* ---------------------------------------------------------------------
\* Requests served at the same time
\* ---------------------------------------------------------------------

\* C29: once two update_state calls on the same stored session id with
\* different target states have both returned, on a durable backend, the
\* dict entry and the row hold the same state, and it is the state one of
\* the two calls wrote.
C29_RacingUpdatesAgree ==
    \A t \in Threads, u \in Threads :
        (/\ t # u
         /\ Serving(t, "update_state", "done")
         /\ Serving(u, "update_state", "done")
         /\ requests[t].payment_id = requests[u].payment_id
         /\ requests[t].state # requests[u].state
         /\ _db # None
         /\ StoreHas(_store, requests[t].payment_id)
         /\ get_session(requests[t].payment_id) # None)
        => /\ StoreGet(_store, requests[t].payment_id).state
                = get_session(requests[t].payment_id).state
           /\ get_session(requests[t].payment_id).state
                \in {requests[t].state, requests[u].state}

\* C30: once a checkout request and a webhook request for the session it
\* created have both completed, the webhook answered with 200 received,
\* the stored state of the session is the state carried by the event.
C30_WebhookNotLost ==
    \A t \in Threads, u \in Threads :
        (/\ Serving(t, "checkout", "done")
         /\ requests[t].ret = "200"
         /\ Serving(u, "webhook", "done")
         /\ requests[u].ret = "200"
         /\ requests[u].payment_id = requests[t].payment_id)
        => /\ get_session(requests[t].payment_id) # None
           /\ get_session(requests[t].payment_id).state = requests[u].state

====
